---- MODULE Spec2Model ----
(***************************************************************************)
(* Verification model of the DB48X numeric core:                           *)
(*   - algebraic::real_promotion / bignum_promotion (algebraic.cc) running *)
(*     on the garbage-collected object heap,                               *)
(*   - decimal128::decimal128(bignum_p, id) (decimal128.cc),               *)
(*   - the decimal128 parser and decimal_format (decimal128.cc),           *)
(*   - local variable references (locals.h) on the stack of local frames,  *)
(*   - the function plot and the axes (graphics.cc).                       *)
(***************************************************************************)
EXTENDS Integers, Sequences, FiniteSets, TLC

VARIABLES
    heap,       \* the object arena: sequence of objects, address = index
    x,          \* the algebraic_g operand (GC-safe reference), 0 = nullptr
    stack,      \* the evaluation stack: sequence of GC-safe addresses
    precision,  \* Settings.precision
    last,       \* record of the last operation, for stating properties
    fault,      \* the program trapped on a null dereference
    cnum,       \* constructor: the bignum being converted
    ci,         \* constructor: loop index i
    cresult,    \* constructor: the accumulated bid128 result
    cpc,        \* constructor: position ("loop", "sign", "done")
    cfg,        \* Settings read by the decimal parser and renderer
    fmt,        \* decimal_format: value, copy, buf, passes, position
    prs,        \* parser: source, length, result, cursor, text for the engine
    frames,     \* active local frames, outermost first; a frame is its slots
    lres,       \* local variables: the last recall or store and its outcome
    plot,       \* DrawFunctionPlot: parameters, position, x, evaluation stack
    interrupted, \* program::interrupted(): the interrupt flag
    drax        \* Drax: parameters, position, pixel coordinates, loop index

vars == <<heap, x, stack, precision, last, fault, cnum, ci, cresult, cpc,
          cfg, fmt, prs, frames, lres, plot, interrupted, drax>>
heapvars == <<heap, x, stack, precision, last, fault>>
ctorvars == <<cnum, ci, cresult, cpc>>
textvars == <<cfg, fmt, prs>>
scopevars == <<frames, lres>>
plotvars == <<plot, interrupted, drax>>

----------------------------------------------------------------------------
(* Bounds *)

HeapSize  == 2      \* number of objects the arena can hold
MaxStack  == 1      \* depth of the evaluation stack
MaxSize   == 2      \* bytes in a bignum magnitude
MaxCoef   == 2      \* digits in the coefficient of a rendered value
MaxShown  == 2      \* largest Settings.displayed
MaxDigits == 5      \* largest Settings.displayed for the example values
MaxFrames == 2      \* depth of the stack of local frames
MaxNames  == 2      \* names bound by a locals block

----------------------------------------------------------------------------
(* Object kinds *)

BID32_MAXDIGITS == 7
BID64_MAXDIGITS == 16

IntegerIds == {"ID_integer", "ID_neg_integer", "ID_hex_integer",
               "ID_dec_integer", "ID_oct_integer", "ID_bin_integer",
               "ID_based_integer"}
BignumIds  == {"ID_bignum", "ID_neg_bignum", "ID_hex_bignum",
               "ID_dec_bignum", "ID_oct_bignum", "ID_bin_bignum",
               "ID_based_bignum"}
DecimalIds == {"ID_decimal32", "ID_decimal64", "ID_decimal128"}
OtherIds   == {"ID_symbol"}
Ids        == IntegerIds \cup BignumIds \cup DecimalIds \cup OtherIds

\* An object: type tag and payload. n is the machine integer value or the
\* decimal magnitude, neg the decimal sign, bytes the bignum magnitude
\* (least significant byte first).
Obj(t, n, neg, bytes) == [type |-> t, n |-> n, neg |-> neg, bytes |-> bytes]

Range(s) == {s[k] : k \in 1..Len(s)}

ByteSample == {0, 1, 255}
SeqsUpTo(S, n) == UNION {[1..k -> S] : k \in 0..n}
Magnitudes == SeqsUpTo(ByteSample, MaxSize)

----------------------------------------------------------------------------
(* decimal128::decimal128(bignum_p num, id type) *)

\* One iteration of the loop: step = result * 256; result = step + digits
HornerStep(result, digits) == result * 256 + digits

\* Faulty variant: the bytes are taken least significant first
ctor_digits_lsb_first(n, size, i) == n[i + 1]

\* digits = n[size - i - 1], the bytes being numbered from 0 in the code
\* and from 1 here
ctor_digits(n, size, i) == n[size - i]

\* The loop for (i = from; i < size; i++)
RECURSIVE HornerLoop(_, _, _)
HornerLoop(n, i, result) ==
    IF i < Len(n)
    THEN HornerLoop(n, i + 1, HornerStep(result, ctor_digits(n, Len(n), i)))
    ELSE result

decimal_from_bignum(type, num) ==
    Obj(type, HornerLoop(num.bytes, 0, 0), num.type = "ID_neg_bignum", <<>>)

----------------------------------------------------------------------------
(* Text: a C string is the sequence of its bytes, each a one-character     *)
(* string; the three bytes of a non-ASCII exponent character are "u1",     *)
(* "u2", "u3".                                                              *)

DigitChars == <<"0", "1", "2", "3", "4", "5", "6", "7", "8", "9">>
IsDigit(c) == \E d \in 1..10 : DigitChars[d] = c
DigitVal(c) == (CHOOSE d \in 1..10 : DigitChars[d] = c) - 1
DigitChar(d) == DigitChars[d + 1]

NUL == "NUL"

\* *p for a pointer p into a NUL-terminated string (1-based position)
At(str, p) == IF p >= 1 /\ p <= Len(str) THEN str[p] ELSE NUL

\* C integer remainder, truncating toward zero
CRem(a, b) == IF a >= 0 THEN a % b ELSE -((-a) % b)

\* printf("%d")
RECURSIVE UDecimal(_)
UDecimal(n) ==
    IF n < 10 THEN <<DigitChar(n)>>
    ELSE UDecimal(n \div 10) \o <<DigitChar(n % 10)>>
PrintInt(n) == IF n < 0 THEN <<"-">> \o UDecimal(-n) ELSE UDecimal(n)

\* atoi(): optional sign, then digits up to the first other byte
RECURSIVE AtoiDigits(_, _, _)
AtoiDigits(str, p, acc) ==
    IF IsDigit(At(str, p))
    THEN AtoiDigits(str, p + 1, acc * 10 + DigitVal(At(str, p)))
    ELSE acc
atoi(str, p) ==
    IF At(str, p) = "-" THEN -AtoiDigits(str, p + 1, 0)
    ELSE IF At(str, p) = "+" THEN AtoiDigits(str, p + 1, 0)
    ELSE AtoiDigits(str, p, 0)

\* strchr(str, c): position of the first c, 0 if there is none
strchr(str, c) ==
    IF \E p \in 1..Len(str) : str[p] = c
    THEN CHOOSE p \in 1..Len(str) : str[p] = c /\ \A q \in 1..(p - 1) : str[q] # c
    ELSE 0

\* utf8_encode(): the bytes of the exponent character
utf8_encode(ch) == IF ch = "E" THEN <<"E">> ELSE <<"u1", "u2", "u3">>

\* bid128_to_string(): sign, integral coefficient, E, signed exponent
bid128_to_string(v) ==
    <<IF v.neg THEN "-" ELSE "+">> \o v.coef \o <<"E">>
    \o <<IF v.exp < 0 THEN "-" ELSE "+">>
    \o UDecimal(IF v.exp < 0 THEN -v.exp ELSE v.exp)

----------------------------------------------------------------------------
(* decimal_format(char *buf, size_t len, bool editing) *)

BID128_MAXDIGITS == 34
MAXBIDCHAR == 48

\* enum settings::display, in declaration order
ModeRank(m) ==
    CASE m = "NORMAL" -> 0 [] m = "FIX" -> 1 [] m = "SCI" -> 2 [] m = "ENG" -> 3

\* Read settings
fmt_mode(c, editing)       == IF editing THEN "NORMAL" ELSE c.display_mode

\* Faulty variant: the digit count of the display is used when editing too
fmt_digits_displayed(c, editing) == c.displayed

fmt_digits(c, editing)     == IF editing THEN BID128_MAXDIGITS ELSE c.displayed
fmt_max_nonsci(c, editing) == IF editing THEN BID128_MAXDIGITS ELSE c.max_nonsci

ToLower(ch) ==
    CASE ch = "I" -> "i" [] ch = "N" -> "n" [] ch = "F" -> "f"
      [] ch = "A" -> "a" [] ch = "E" -> "e" [] OTHER -> ch

\* strncasecmp(str + p - 1, lit, Len(lit)) == 0
HasPrefixNoCase(str, p, lit) ==
    \A k \in 1..Len(lit) : ToLower(At(str, p + k - 1)) = ToLower(lit[k])

Infinity == <<"i1", "i2", "i3">>    \* the UTF-8 bytes of the infinity sign

\* Faulty variant: the trailing zeros of the coefficient are kept
strip_zeros_none(copy, lastp) == lastp

\* while (last > copy + 2 && last[-1] == '0') last--
RECURSIVE strip_zeros(_, _)
strip_zeros(copy, lastp) ==
    IF lastp > 3 /\ copy[lastp - 1] = "0"
    THEN strip_zeros(copy, lastp - 1)
    ELSE lastp

\* Emit decimal dot and leading zeros on fractional part
RECURSIVE lead_zeros(_, _)
lead_zeros(o, zeroes) ==
    IF zeroes < 0 THEN lead_zeros(Append(o, "0"), zeroes + 1) ELSE o

\* Faulty variant: every digit copied is counted, in all modes
RECURSIVE copy_digits_counting_all(_, _, _, _, _, _)
copy_digits_counting_all(copy, lastp, st, showdec, decimal, counting) ==
    IF st.in < lastp /\ st.decimals > 0
    THEN LET in1  == st.in + 1
             dp   == st.decpos - 1
             o1   == Append(st.o, copy[st.in])
             o2   == IF dp = 0 /\ (in1 < lastp \/ showdec)
                     THEN Append(o1, decimal) ELSE o1
         IN copy_digits_counting_all(copy, lastp,
                        [in |-> in1, o |-> o2, decpos |-> dp,
                         decimals |-> st.decimals - 1],
                        showdec, decimal, counting)
    ELSE st

\* Copy significant digits, inserting decimal separator when needed.
\* st = [in, o, decpos, decimals]; counting = sigmode || engmode
RECURSIVE copy_digits(_, _, _, _, _, _)
copy_digits(copy, lastp, st, showdec, decimal, counting) ==
    IF st.in < lastp /\ st.decimals > 0
    THEN LET in1  == st.in + 1
             dp   == st.decpos - 1
             o1   == Append(st.o, copy[st.in])
             o2   == IF dp = 0 /\ (in1 < lastp \/ showdec)
                     THEN Append(o1, decimal) ELSE o1
             dec1 == IF dp < 0 \/ counting
                     THEN st.decimals - 1 ELSE st.decimals
         IN copy_digits(copy, lastp,
                        [in |-> in1, o |-> o2, decpos |-> dp, decimals |-> dec1],
                        showdec, decimal, counting)
    ELSE st

\* while (rounding && --rptr > buf): buf is position 1
RECURSIVE round_digits(_, _)
round_digits(o, rptr) ==
    LET r == rptr - 1 IN
    IF r > 1
    THEN IF IsDigit(o[r])                  \* Do not convert '.' or '-'
         THEN IF o[r] = "9"
              THEN round_digits([o EXCEPT ![r] = "0"], r)
              ELSE [o |-> [o EXCEPT ![r] = DigitChar(DigitVal(@) + 1)],
                    rounding |-> FALSE]
         ELSE round_digits(o, r)
    ELSE [o |-> o, rounding |-> TRUE]

\* Add trailing zeroes if necessary
RECURSIVE pad_zeros(_, _, _, _)
pad_zeros(o, decpos, decimals, decimal) ==
    IF decimals > 0
    THEN LET o1 == Append(o, "0")
             dp == decpos - 1
         IN pad_zeros(IF dp = 0 THEN Append(o1, decimal) ELSE o1,
                      dp, decimals - 1, decimal)
    ELSE o

\* snprintf(out, remaining, "%d", dispexp): what is stored before the NUL
snprintf_stored(t, remaining) ==
    IF remaining <= 0 \/ Len(t) < remaining
    THEN t
    ELSE SubSeq(t, 1, remaining - 1)

\* Offset of the decimal point in engineering mode
eng_offset(dispexp) ==
    IF dispexp >= 0 THEN CRem(dispexp, 3) ELSE CRem(dispexp - 2, 3) + 2

\* Faulty variant: the threshold itself is still shown without exponent
fmt_hasexp_above(mode, digits, max_nonsci, realexp, mexp) ==
    IF ModeRank(mode) >= ModeRank("SCI") THEN TRUE
    ELSE IF realexp < 0
         THEN LET minexp == IF digits < max_nonsci THEN digits ELSE max_nonsci
              IN mexp - realexp - 1 >= minexp
         ELSE realexp > max_nonsci

\* Whether scientific notation is used
fmt_hasexp(mode, digits, max_nonsci, realexp, mexp) ==
    IF ModeRank(mode) >= ModeRank("SCI") THEN TRUE
    ELSE IF realexp < 0
         THEN LET minexp == IF digits < max_nonsci THEN digits ELSE max_nonsci
              IN mexp - realexp - 1 >= minexp
         ELSE realexp >= max_nonsci

PassResult(special, overflow, copy, text, ret, e, rounded, shown) ==
    [special |-> special, overflow |-> overflow, copy |-> copy,
     text |-> text, ret |-> ret, hasexp |-> e.hasexp, realexp |-> e.realexp,
     dispexp |-> e.dispexp, offset |-> e.offset, rounded |-> rounded,
     shown |-> shown]

NoLayout == [hasexp |-> FALSE, realexp |-> 0, dispexp |-> 0, offset |-> 0]

\* No exponent in the text: a special number like an infinity or a NaN
format_special(copy, buf) ==
    LET text == IF HasPrefixNoCase(copy, 1, <<"+", "i", "n", "f">>)
                THEN Infinity
                ELSE IF HasPrefixNoCase(copy, 1, <<"-", "i", "n", "f">>)
                THEN <<"-">> \o Infinity
                ELSE buf
    IN PassResult(TRUE, FALSE, copy, text, Len(text), NoLayout, FALSE, 0)

\* Sign, exponents, trailing zeros
format_scan(copy, expptr) ==
    LET negative == copy[1] = "-"
        in0      == IF negative \/ copy[1] = "+" THEN 2 ELSE 1
        lastp    == strip_zeros(copy, expptr)
    IN [negative |-> negative, in0 |-> in0, lastp |-> lastp,
        realexp  |-> atoi(copy, expptr + 1) + (expptr - in0 - 1),
        mexp     |-> (expptr - in0 - 1) - (expptr - lastp)]

\* Scientific notation or not, position of the decimal dot, leading zeros,
\* engineering mode adjustment: the state on entry to the copy loop
format_layout(sc, o0, mode, digits, max_nonsci, decimal) ==
    LET hasexp  == fmt_hasexp(mode, digits, max_nonsci, sc.realexp, sc.mexp)
        plain   == ~hasexp /\ ModeRank(mode) < ModeRank("SCI")
        leading == ~hasexp /\ sc.realexp < 0
        nzeroes == IF leading /\ sc.realexp + 1 < 0
                   THEN -(sc.realexp + 1) ELSE 0
        offset  == IF mode = "ENG" THEN eng_offset(sc.realexp) ELSE 0
    IN [hasexp   |-> hasexp,
        realexp  |-> sc.realexp,
        offset   |-> offset,
        dispexp  |-> sc.realexp - offset,
        o        |-> IF leading
                     THEN lead_zeros(o0 \o <<"0", decimal>>, sc.realexp + 1)
                     ELSE o0,
        decpos   |-> (IF plain /\ sc.realexp >= 0 THEN sc.realexp + 1 ELSE 1)
                     - (IF leading THEN 1 ELSE 0) + offset,
        decimals |-> digits - nzeroes + (IF mode = "ENG" THEN 1 ELSE 0)]

\* Faulty variant: the dropped digits are cut off, nothing is rounded
format_round_truncating(copy, lastp, st) == [o |-> st.o, rounding |-> FALSE]

\* Check if we need some rounding on what is being displayed
format_round(copy, lastp, st) ==
    IF st.in < lastp /\ DigitVal(copy[st.in]) >= 5
    THEN round_digits(st.o, Len(st.o) + 1)
    ELSE [o |-> st.o, rounding |-> FALSE]

\* Trailing zeroes and exponent
format_finish(copy, c, mode, digits, sc, ly, st, o) ==
    LET decimals == IF mode = "NORMAL"
                    THEN (IF st.decpos > 0 THEN st.decpos ELSE 0)
                    ELSE IF mode = "FIX" /\ st.decpos > 0
                    THEN digits + st.decpos
                    ELSE st.decimals
        o3       == pad_zeros(o, st.decpos, decimals, c.decimal_dot)
        echar    == utf8_encode(c.exponent_char)
        etext    == PrintInt(ly.dispexp)
    IN PassResult(FALSE, FALSE, copy,
                  IF ly.hasexp
                  THEN o3 \o echar
                       \o snprintf_stored(etext,
                                          MAXBIDCHAR - (Len(o3) + Len(echar)))
                  ELSE o3,
                  IF ly.hasexp THEN Len(o3) + Len(echar) + Len(etext)
                  ELSE Len(o3),
                  ly, st.in < sc.lastp, st.in - sc.in0)

\* Faulty variant: the restart leaves the text being formatted as it was
format_digits_same_text(copy, c, mode, digits, sc, ly) ==
    LET st == copy_digits(copy, sc.lastp,
                          [in |-> sc.in0, o |-> ly.o, decpos |-> ly.decpos,
                           decimals |-> ly.decimals],
                          c.show_decimal, c.decimal_dot,
                          mode = "NORMAL" \/ mode = "ENG")
        rd == format_round(copy, sc.lastp, st)
    IN IF rd.rounding
       THEN PassResult(FALSE, TRUE, copy, rd.o, 0, ly, TRUE, st.in - sc.in0)
       ELSE format_finish(copy, c, mode, digits, sc, ly, st, rd.o)

\* Copy loop, rounding, then either the restart or the end of the pass
format_digits(copy, c, mode, digits, sc, ly) ==
    LET st == copy_digits(copy, sc.lastp,
                          [in |-> sc.in0, o |-> ly.o, decpos |-> ly.decpos,
                           decimals |-> ly.decimals],
                          c.show_decimal, c.decimal_dot,
                          mode = "NORMAL" \/ mode = "ENG")
        rd == format_round(copy, sc.lastp, st)
    IN IF rd.rounding
       THEN PassResult(FALSE, TRUE,
                       <<IF sc.negative THEN "-" ELSE "+", "1", "E">>
                       \o PrintInt(sc.realexp + 1),
                       rd.o, 0, ly, TRUE, st.in - sc.in0)
       ELSE format_finish(copy, c, mode, digits, sc, ly, st, rd.o)

format_body(copy, buf, c, mode, digits, max_nonsci, sc) ==
    format_digits(copy, c, mode, digits, sc,
                  format_layout(sc, IF sc.negative THEN <<buf[1]>> ELSE <<>>,
                                mode, digits, max_nonsci, c.decimal_dot))

\* One pass of the do ... while (overflow) loop. copy is the text being
\* formatted, buf the bytes in the output buffer (buf[0] keeps the sign).
\* Result: special (no exponent found), overflow (rounding ran past the
\* first digit: copy is replaced and the loop continues), text (the string
\* left in buf), ret (the value returned), rounded (a digit was dropped),
\* shown (coefficient digits copied) and the quantities computed.
format_pass(copy, buf, c, editing) ==
    IF strchr(copy, "E") = 0
    THEN format_special(copy, buf)
    ELSE format_body(copy, buf, c, fmt_mode(c, editing),
                     fmt_digits(c, editing), fmt_max_nonsci(c, editing),
                     format_scan(copy, strchr(copy, "E")))

----------------------------------------------------------------------------
(* OBJECT_PARSER_BODY(decimal128) *)

\* int maxexp = 128 == 127+1 ? 6144 : ...
maxexp == 6144

\* while (s < last && (*s >= '0' && *s <= '9')) s++;   last = source + length
RECURSIVE skip_digits(_, _, _)
skip_digits(source, s, length) ==
    IF s <= length /\ IsDigit(At(source, s))
    THEN skip_digits(source, s + 1, length)
    ELSE s

\* Faulty variant: only the ASCII E is taken for the exponent character
is_exponent_char_ascii(source, s, c) == At(source, s) = "E"

\* utf8_codepoint(s) == Settings.exponent_char
is_exponent_char(source, s, c) ==
    IF c.exponent_char = "E"
    THEN At(source, s) = "E"
    ELSE /\ At(source, s) = "u1"
         /\ At(source, s + 1) = "u2"
         /\ At(source, s + 2) = "u3"

\* utf8_next(s): the byte after the character at s and its continuation bytes
RECURSIVE utf8_skip(_, _)
utf8_skip(source, s) ==
    IF At(source, s) \in {"u2", "u3", "i2", "i3"}
    THEN utf8_skip(source, s + 1) ELSE s
utf8_next(source, s) == utf8_skip(source, s + 1)

\* Patch the input to the BID library: for (u = source; u < s && b < buf+49; u++)
RECURSIVE patch_input(_, _, _, _, _)
patch_input(source, u, s, c, b) ==
    IF u < s /\ Len(b) < 49
    THEN IF At(source, u) = c.decimal_dot
         THEN patch_input(source, u + 1, s, c, Append(b, "."))
         ELSE IF is_exponent_char(source, u, c)
         THEN patch_input(source, utf8_next(source, u), s, c, Append(b, "E"))
         ELSE patch_input(source, u + 1, s, c, Append(b, At(source, u)))
    ELSE b

ParseResult(result, end, out, err, errpos) ==
    [result |-> result, end |-> end, out |-> out, made |-> result = "OK",
     err |-> err, errpos |-> errpos]

\* The parser body. Positions are 1-based: position k is source + k - 1.
\* end is p.end (unchanged, 0, unless OK), out the text given to the
\* decimal128 constructor, errpos the position of the recorded error.
object_parser(source, length, precedence, c) ==
    LET signed == At(source, 1) \in {"+", "-"} IN
    IF signed /\ precedence < 0
    THEN ParseResult("SKIP", 0, <<>>, "none", 0)
    ELSE
    LET digits == IF signed THEN 2 ELSE 1
        s2     == skip_digits(source, digits, length)
        hadDecimalDot == At(source, s2) \in {".", ","}
        s3     == IF hadDecimalDot
                  THEN skip_digits(source, s2 + 1, length) ELSE s2
    IN
    IF /\ s3 = digits
       /\ ~HasPrefixNoCase(source, s3, <<"i", "n", "f">>)
       /\ ~HasPrefixNoCase(source, s3, Infinity)
       /\ ~HasPrefixNoCase(source, s3, <<"N", "a", "N">>)
    THEN ParseResult("SKIP", 0, <<>>, "none", 0)
    ELSE
    LET mantissa == s3 - digits - (IF hadDecimalDot THEN 1 ELSE 0) IN
    IF mantissa >= BID128_MAXDIGITS
    THEN ParseResult("WARN", 0, <<>>, "mantissa_error",
                     digits + BID128_MAXDIGITS)
    ELSE
    LET hasExponent == \/ At(source, s3) \in {"e", "E"}
                       \/ is_exponent_char(source, s3, c)
        exponent == utf8_next(source, s3)
        expval   == IF At(source, exponent) \in {"+", "-"}
                    THEN exponent + 1 ELSE exponent
        s4       == IF hasExponent
                    THEN skip_digits(source, expval, length) ELSE s3
    IN
    IF hasExponent /\ s4 = expval
    THEN ParseResult("ERROR", 0, <<>>, "exponent_error", s4)
    ELSE IF /\ hasExponent
            /\ LET e == atoi(source, exponent)
               IN e < -(maxexp - 1) \/ e > maxexp
    THEN ParseResult("WARN", 0, <<>>, "exponent_range_error", s4)
    ELSE ParseResult("OK", s4 - 1, patch_input(source, 1, s4, c, <<>>),
                     "none", 0)

\* bid128_from_string(): [sign] digits [. digits] [E|e [sign] digits];
\* anything else is not a number
NaNValue == [nan |-> TRUE, neg |-> FALSE, coef |-> <<>>, exp |-> 0]

bid128_from_string(t) ==
    LET p0   == IF At(t, 1) \in {"+", "-"} THEN 2 ELSE 1
        p1   == skip_digits(t, p0, Len(t))
        dot  == At(t, p1) = "."
        p2   == IF dot THEN skip_digits(t, p1 + 1, Len(t)) ELSE p1
        coef == SubSeq(t, p0, p1 - 1)
                \o (IF dot THEN SubSeq(t, p1 + 1, p2 - 1) ELSE <<>>)
        nfrac == IF dot THEN p2 - p1 - 1 ELSE 0
        hasE == At(t, p2) \in {"E", "e"}
        p3   == IF At(t, p2 + 1) \in {"+", "-"} THEN p2 + 2 ELSE p2 + 1
        p4   == IF hasE THEN skip_digits(t, p3, Len(t)) ELSE p2
    IN IF coef = <<>> \/ p4 <= Len(t) \/ (hasE /\ p4 = p3)
       THEN NaNValue
       ELSE [nan |-> FALSE, neg |-> At(t, 1) = "-", coef |-> coef,
             exp |-> (IF hasE THEN atoi(t, p2 + 1) ELSE 0) - nfrac]

----------------------------------------------------------------------------
(* The runtime: bump allocation in a contiguous arena, compacting collector *)

\* The registered GC-safe references: x and the evaluation stack
Live == ({x} \cup Range(stack)) \ {0}

\* Address of live object a after compaction (stable order, moved to front)
NewAddr(L, a) == IF a = 0 THEN 0 ELSE Cardinality({b \in L : b <= a})

\* collect(): the live objects, compacted to the front of the arena
collect(h, L) ==
    [k \in 1..Cardinality(L) |-> h[CHOOSE a \in L : NewAddr(L, a) = k]]

\* allocate(): room at the high-water mark, else collect, else out of memory
allocate(h, L) ==
    IF Len(h) < HeapSize
    THEN [ok |-> TRUE, gc |-> FALSE, tried |-> TRUE, h |-> h]
    ELSE IF Cardinality(L) < HeapSize
         THEN [ok |-> TRUE, gc |-> TRUE, tried |-> TRUE, h |-> collect(h, L)]
         ELSE [ok |-> FALSE, gc |-> TRUE, tried |-> TRUE, h |-> h]

\* Address of a registered reference once allocate() has returned
Fixup(a, al, L) == IF al.gc /\ al.ok THEN NewAddr(L, a) ELSE a

\* Little-endian magnitude bytes of a machine integer: bignum(integer_g)
RECURSIVE ToBytes(_)
ToBytes(n) == IF n = 0 THEN <<>> ELSE <<n % 256>> \o ToBytes(n \div 256)

----------------------------------------------------------------------------
(* algebraic::real_promotion(algebraic_g &x, object::id type) *)

\* Faulty variant: the decimal64 case converts to decimal32 (a narrowing)
real_promotion_rule_narrowing(xt, type) ==
    CASE xt \in {"ID_integer", "ID_neg_integer", "ID_bignum", "ID_neg_bignum"}
                               -> type \in DecimalIds
      [] xt = "ID_decimal32"   -> type \in {"ID_decimal64", "ID_decimal128"}
      [] xt = "ID_decimal64"   -> type \in {"ID_decimal32", "ID_decimal128"}
      [] OTHER                 -> FALSE

\* Faulty variant: the decimal32 case lacks the decimal64 target
real_promotion_rule_missing(xt, type) ==
    CASE xt \in {"ID_integer", "ID_neg_integer", "ID_bignum", "ID_neg_bignum"}
                               -> type \in DecimalIds
      [] xt = "ID_decimal32"   -> type \in {"ID_decimal128"}
      [] xt = "ID_decimal64"   -> type \in {"ID_decimal64", "ID_decimal128"}
      [] OTHER                 -> FALSE

\* The nested switch: TRUE when (xt, type) reaches one of the rt.make calls
real_promotion_rule(xt, type) ==
    CASE xt = "ID_integer"     -> type \in DecimalIds
      [] xt = "ID_neg_integer" -> type \in DecimalIds
      [] xt \in {"ID_bignum", "ID_neg_bignum"} -> type \in DecimalIds
      [] xt = "ID_decimal32"   -> type \in {"ID_decimal64", "ID_decimal128"}
      [] xt = "ID_decimal64"   -> type \in {"ID_decimal64", "ID_decimal128"}
      [] OTHER                 -> FALSE

\* The bignum case hands the raw pointer i (taken before rt.make) to the
\* constructor; the other cases copy the value out before allocating.
real_promotion_raw(xt) == xt \in {"ID_bignum", "ID_neg_bignum"}

\* The object rt.make builds; num is what the constructor reads through i
real_promotion_make(src, type, num) ==
    CASE src.type = "ID_integer"     -> Obj(type, src.n, FALSE, <<>>)
      [] src.type = "ID_neg_integer" -> Obj(type, src.n, TRUE, <<>>)
      [] src.type \in {"ID_bignum", "ID_neg_bignum"}
                                     -> decimal_from_bignum(type, num)
      [] OTHER                       -> Obj(type, src.n, src.neg, <<>>)

\* What a read through an address that no longer holds the object may give
StaleReads ==
    {Obj(t, 0, FALSE, b) : t \in {"ID_bignum", "ID_neg_bignum", "ID_symbol"},
                           b \in {<<>>, <<1>>, <<0, 1>>}}

\* What x->type() and the payload give when x is the null pointer
NullReads == {Obj("ID_integer", 0, FALSE, <<>>), Obj("ID_symbol", 0, FALSE, <<>>)}

NoObj == Obj("none", 0, FALSE, <<>>)

NoAlloc == [ok |-> FALSE, gc |-> FALSE, tried |-> FALSE, h |-> <<>>]

\* Record of one call: entry point, requested type, returned value, the
\* object x referred to on entry and where, and what the allocator did
Last(op, target, ok, ret, src, srcAddr, al, stale) ==
    [op |-> op, target |-> target, ok |-> ok, ret |-> ret, src |-> src,
     srcAddr |-> srcAddr, allocated |-> al.ok, oom |-> al.tried /\ ~al.ok,
     stale |-> stale]

\* Dereferencing the null pointer may trap
NullTrap(op, target) ==
    /\ x = 0
    /\ fault' = TRUE
    /\ last' = Last(op, target, FALSE, "trap", NoObj, 0, NoAlloc, FALSE)
    /\ UNCHANGED <<heap, x, stack>>

\* Body of real_promotion; retT / retF are what the entry point returns
real_promotion(op, type, retT, retF) ==
    \E src \in (IF x = 0 THEN NullReads ELSE {heap[x]}) :
      LET xt == src.type IN
      IF xt = type
      THEN /\ last' = Last(op, type, TRUE, retT, src, x, NoAlloc, FALSE)
           /\ UNCHANGED <<heap, x, stack, fault>>
      ELSE IF ~real_promotion_rule(xt, type)
      THEN /\ last' = Last(op, type, FALSE, retF, src, x, NoAlloc, FALSE)
           /\ UNCHANGED <<heap, x, stack, fault>>
      ELSE LET L     == Live
               al    == allocate(heap, L)
               stale == real_promotion_raw(xt) /\ Fixup(x, al, L) # x
           IN \E num \in (IF stale THEN StaleReads ELSE {src}) :
                /\ heap'  = IF al.ok
                            THEN Append(al.h, real_promotion_make(src, type, num))
                            ELSE heap
                /\ x'     = IF al.ok THEN Len(al.h) + 1 ELSE 0
                /\ stack' = [k \in 1..Len(stack) |-> Fixup(stack[k], al, L)]
                /\ last'  = Last(op, type, TRUE, retT, src, x, al, stale)
                /\ UNCHANGED fault

\* promote_to(x, type): bool algebraic::real_promotion(algebraic_g &, id)
PromoteTo(type) ==
    /\ ~fault
    /\ \/ real_promotion("promote_to", type, "true", "false")
       \/ NullTrap("promote_to", type)
    /\ UNCHANGED <<precision, ctorvars, textvars, scopevars, plotvars>>

\* Faulty variant: the thresholds are compared with >= instead of >
auto_type_inclusive(prec) ==
    IF prec >= BID64_MAXDIGITS THEN "ID_decimal128"
    ELSE IF prec >= BID32_MAXDIGITS THEN "ID_decimal64"
    ELSE "ID_decimal32"

\* Auto-selection of type from Settings.precision
auto_type(prec) ==
    IF prec > BID64_MAXDIGITS THEN "ID_decimal128"
    ELSE IF prec > BID32_MAXDIGITS THEN "ID_decimal64"
    ELSE "ID_decimal32"

\* auto_promote(x): object::id algebraic::real_promotion(algebraic_g &x)
AutoPromote ==
    /\ ~fault
    /\ LET type == auto_type(precision) IN
       \/ real_promotion("auto_promote", type, type, "ID_object")
       \/ NullTrap("auto_promote", type)
    /\ UNCHANGED <<precision, ctorvars, textvars, scopevars, plotvars>>

\* The switch of bignum_promotion
bignum_promotion_type(xt) ==
    CASE xt = "ID_hex_integer"   -> "ID_hex_bignum"
      [] xt = "ID_dec_integer"   -> "ID_dec_bignum"
      [] xt = "ID_oct_integer"   -> "ID_oct_bignum"
      [] xt = "ID_bin_integer"   -> "ID_bin_bignum"
      [] xt = "ID_based_integer" -> "ID_based_bignum"
      [] xt = "ID_neg_integer"   -> "ID_neg_bignum"
      [] xt = "ID_integer"       -> "ID_bignum"
      [] OTHER                   -> xt

\* promote_to_bignum(x): object::id algebraic::bignum_promotion(algebraic_g &x)
\* The source is held in integer_g i, a registered reference to x's object.
bignum_promotion ==
    \E src \in (IF x = 0 THEN NullReads ELSE {heap[x]}) :
      LET xt == src.type
          ty == bignum_promotion_type(xt)
      IN IF ty = xt
         THEN /\ last' = Last("promote_to_bignum", ty, TRUE, ty, src, x,
                              NoAlloc, FALSE)
              /\ UNCHANGED <<heap, x, stack, fault>>
         ELSE LET L  == Live
                  al == allocate(heap, L)
              IN /\ heap'  = IF al.ok
                             THEN Append(al.h, Obj(ty, 0, FALSE, ToBytes(src.n)))
                             ELSE heap
                 /\ x'     = IF al.ok THEN Len(al.h) + 1 ELSE 0
                 /\ stack' = [k \in 1..Len(stack) |-> Fixup(stack[k], al, L)]
                 /\ last'  = Last("promote_to_bignum", ty, TRUE, ty, src, x,
                                  al, FALSE)
                 /\ UNCHANGED fault

PromoteToBignum ==
    /\ ~fault
    /\ \/ bignum_promotion
       \/ NullTrap("promote_to_bignum", "none")
    /\ UNCHANGED <<precision, ctorvars, textvars, scopevars, plotvars>>

----------------------------------------------------------------------------
(* The evaluator around the promotions: it fills the stack, drops values,  *)
(* forces collections and changes the precision setting.                   *)

Filler == Obj("ID_symbol", 0, FALSE, <<>>)

EnvLast(op, al) == Last(op, "none", al.ok, "none", NoObj, 0, al, FALSE)

\* rt.make + rt.push of a fresh object
Push ==
    /\ ~fault
    /\ Len(stack) < MaxStack
    /\ LET L  == Live
           al == allocate(heap, L)
       IN /\ heap'  = IF al.ok THEN Append(al.h, Filler) ELSE heap
          /\ x'     = Fixup(x, al, L)
          /\ stack' = IF al.ok
                      THEN Append([k \in 1..Len(stack) |-> Fixup(stack[k], al, L)],
                                  Len(al.h) + 1)
                      ELSE stack
          /\ last'  = EnvLast("push", al)
    /\ UNCHANGED <<precision, fault, ctorvars, textvars, scopevars, plotvars>>

\* rt.drop(): the object becomes garbage
Drop ==
    /\ ~fault
    /\ Len(stack) > 0
    /\ stack' = SubSeq(stack, 1, Len(stack) - 1)
    /\ last'  = EnvLast("drop", NoAlloc)
    /\ UNCHANGED <<heap, x, precision, fault, ctorvars, textvars,
                   scopevars, plotvars>>

\* A forced collection
Collect ==
    /\ ~fault
    /\ LET L == Live IN
       /\ Cardinality(L) < Len(heap)
       /\ heap'  = collect(heap, L)
       /\ x'     = NewAddr(L, x)
       /\ stack' = [k \in 1..Len(stack) |-> NewAddr(L, stack[k])]
    /\ last' = EnvLast("collect", NoAlloc)
    /\ UNCHANGED <<precision, fault, ctorvars, textvars, scopevars, plotvars>>

Precisions == {BID32_MAXDIGITS, BID32_MAXDIGITS + 1,
               BID64_MAXDIGITS, BID64_MAXDIGITS + 1}

SetPrecision(p) ==
    /\ ~fault
    /\ p # precision
    /\ precision' = p
    /\ last' = EnvLast("precision", NoAlloc)
    /\ UNCHANGED <<heap, x, stack, fault, ctorvars, textvars,
                   scopevars, plotvars>>

\* The values x may hold at the start
XObjects ==
    {Obj(t, 300, FALSE, <<>>) : t \in IntegerIds}
    \cup {Obj(t, 0, FALSE, b) : t \in {"ID_bignum", "ID_neg_bignum"},
                                b \in {<<>>, <<44, 1>>}}
    \cup {Obj(t, 0, FALSE, <<1>>) : t \in BignumIds}
    \cup {Obj(t, 1, t = "ID_decimal64", <<>>) : t \in DecimalIds}
    \cup {Filler}

CtorIdle ==
    /\ cnum = NoObj
    /\ ci = 0
    /\ cresult = 0
    /\ cpc = "idle"

ScopeIdle ==
    /\ frames = <<>>
    /\ lres = [op |-> "none"]

PlotIdle ==
    /\ plot = [pc |-> "idle"]
    /\ interrupted = FALSE
    /\ drax = [pc |-> "idle"]

TextIdle ==
    /\ cfg = [mode |-> "NORMAL"]
    /\ fmt = [pc |-> "idle"]
    /\ prs = [pc |-> "idle"]

Init ==
    /\ \E pre \in 0..1, o \in XObjects :
         /\ heap = [k \in 1..pre |-> Filler] \o <<o>>
         /\ x = pre + 1
    /\ stack = <<>>
    /\ precision \in Precisions
    /\ last = EnvLast("none", NoAlloc)
    /\ fault = FALSE
    /\ CtorIdle
    /\ TextIdle
    /\ ScopeIdle
    /\ PlotIdle

Next ==
    \/ \E type \in Ids : PromoteTo(type)
    \/ AutoPromote
    \/ PromoteToBignum
    \/ Push
    \/ Drop
    \/ Collect
    \/ \E p \in Precisions : SetPrecision(p)

Spec == Init /\ [][Next]_vars

----------------------------------------------------------------------------
(* decimal128::decimal128(bignum_p, id), statement by statement *)

HeapIdle ==
    /\ heap = <<>>
    /\ x = 0
    /\ stack = <<>>
    /\ precision = 34
    /\ last = EnvLast("none", NoAlloc)
    /\ fault = FALSE

CtorInit ==
    /\ HeapIdle
    /\ TextIdle
    /\ ScopeIdle
    /\ PlotIdle
    /\ cnum \in {Obj(t, 0, FALSE, b) :
                   t \in {"ID_bignum", "ID_neg_bignum", "ID_hex_bignum"},
                   b \in Magnitudes}
    /\ ci = 0
    /\ cresult = [n |-> 0, neg |-> FALSE]
    /\ cpc = "loop"

\* One pass of the loop body
CtorLoop ==
    /\ cpc = "loop"
    /\ ci < Len(cnum.bytes)
    /\ cresult' = [cresult EXCEPT
                     !.n = HornerStep(@, ctor_digits(cnum.bytes, Len(cnum.bytes), ci))]
    /\ ci' = ci + 1
    /\ UNCHANGED <<cnum, cpc, heapvars, textvars, scopevars, plotvars>>

\* The loop condition fails
CtorLoopExit ==
    /\ cpc = "loop"
    /\ ~(ci < Len(cnum.bytes))
    /\ cpc' = "sign"
    /\ UNCHANGED <<cnum, ci, cresult, heapvars, textvars, scopevars, plotvars>>

\* if (num->type() == ID_neg_bignum) bid128_negate; memcpy to the payload
CtorSign ==
    /\ cpc = "sign"
    /\ cresult' = [cresult EXCEPT !.neg = (cnum.type = "ID_neg_bignum")]
    /\ cpc' = "done"
    /\ UNCHANGED <<cnum, ci, heapvars, textvars, scopevars, plotvars>>

CtorNext == CtorLoop \/ CtorLoopExit \/ CtorSign

SpecCtor == CtorInit /\ [][CtorNext]_vars

----------------------------------------------------------------------------
(* Rendering a decimal128 and parsing the rendered text back:              *)
(* OBJECT_RENDERER_BODY(decimal128), decimal_format, the parser            *)

DigitSample == {"0", "1", "5", "9"}

\* Coefficients as the engine prints them: no leading zero, except zero
Coefs ==
    {<<"0">>}
    \cup UNION {{d \in [1..k -> DigitSample] : d[1] # "0"} : k \in 1..MaxCoef}

Values == [nan : {FALSE}, neg : BOOLEAN, coef : Coefs, exp : -3..1]

DisplaySettings ==
    [display_mode : {"NORMAL", "FIX", "SCI", "ENG"},
     displayed    : 0..MaxShown,
     max_nonsci   : {1, 3},
     show_decimal : BOOLEAN,
     decimal_dot  : {".", ","},
     exponent_char : {"E", "U"}]

NoPass == [special |-> FALSE, overflow |-> FALSE, copy |-> <<>>,
           text |-> <<>>, ret |-> 0, hasexp |-> FALSE, realexp |-> 0,
           dispexp |-> 0, offset |-> 0, rounded |-> FALSE, shown |-> 0]

NoParse == [pc |-> "idle", source |-> <<>>, length |-> 0, precedence |-> 0,
            r |-> ParseResult("none", 0, <<>>, "none", 0),
            value |-> NaNValue]

FmtInit ==
    /\ HeapIdle
    /\ CtorIdle
    /\ ScopeIdle
    /\ PlotIdle
    /\ cfg \in {c \in DisplaySettings :
                  (c.decimal_dot = ",") = (c.exponent_char = "U")}
    /\ \E v \in Values, editing \in BOOLEAN :
         /\ editing => (cfg.display_mode = "FIX" /\ cfg.displayed = 0
                        /\ cfg.max_nonsci = 1)
         /\ fmt = [pc |-> "render", v |-> v, editing |-> editing,
                   copy |-> <<>>, buf |-> <<>>, ret |-> 0, passes |-> 0,
                   r |-> NoPass]
    /\ prs = NoParse

\* bid128_to_string(buf, &num.value), then the copy decimal_format makes
Render ==
    /\ fmt.pc = "render"
    /\ fmt' = [fmt EXCEPT !.pc = "pass",
                          !.buf = bid128_to_string(fmt.v),
                          !.copy = bid128_to_string(fmt.v)]
    /\ UNCHANGED <<cfg, prs, heapvars, ctorvars, scopevars, plotvars>>

\* One pass of the do ... while (overflow) loop of decimal_format
FormatPass ==
    /\ fmt.pc = "pass"
    /\ LET r == format_pass(fmt.copy, fmt.buf, cfg, fmt.editing) IN
       fmt' = [fmt EXCEPT
                 !.pc     = IF r.overflow THEN "pass" ELSE "done",
                 !.copy   = r.copy,
                 !.buf    = IF r.overflow
                            THEN r.text \o SubSeq(@, Len(r.text) + 1, Len(@))
                            ELSE r.text,
                 !.ret    = r.ret,
                 !.passes = @ + 1,
                 !.r      = r]
    /\ UNCHANGED <<cfg, prs, heapvars, ctorvars, scopevars, plotvars>>

\* The rendered text is parsed back (command line, precedence 0)
Parse ==
    /\ fmt.pc = "done"
    /\ prs.pc = "idle"
    /\ LET r == object_parser(fmt.buf, fmt.ret, 0, cfg) IN
       prs' = [pc |-> "parsed", source |-> fmt.buf, length |-> fmt.ret,
               precedence |-> 0, r |-> r,
               value |-> IF r.result = "OK" THEN bid128_from_string(r.out)
                         ELSE NaNValue]
    /\ UNCHANGED <<cfg, fmt, heapvars, ctorvars, scopevars, plotvars>>

FmtNext == Render \/ FormatPass \/ Parse

SpecFmt == FmtInit /\ [][FmtNext]_vars

----------------------------------------------------------------------------
(* Rendering of particular values under a wider range of settings          *)

Value(neg, coef, exp) == [nan |-> FALSE, neg |-> neg, coef |-> coef, exp |-> exp]

\* 9.9999, -9.9999, 123.45, 123 and 1 (in both forms the engine prints),
\* 1.295, -1.295, -1.996
ExampleValues ==
    {Value(FALSE, <<"9", "9", "9", "9", "9">>, -4),
     Value(TRUE,  <<"9", "9", "9", "9", "9">>, -4),
     Value(FALSE, <<"1", "2", "3", "4", "5">>, -2),
     Value(FALSE, <<"1", "2", "3">>, 0),
     Value(FALSE, <<"1", "2", "3", "0">>, -1),
     Value(FALSE, <<"1">>, 0),
     Value(FALSE, <<"1", "0">>, -1),
     Value(FALSE, <<"1", "2", "9", "5">>, -3),
     Value(TRUE,  <<"1", "2", "9", "5">>, -3),
     Value(TRUE,  <<"1", "9", "9", "6">>, -3)}

ExampleSettings ==
    [display_mode : {"NORMAL", "FIX", "SCI", "ENG"},
     displayed    : 0..MaxDigits,
     max_nonsci   : {1, 2, 3, 12},
     show_decimal : BOOLEAN,
     decimal_dot  : {".", ","},
     exponent_char : {"E", "U"}]

ExampleInit ==
    /\ HeapIdle
    /\ CtorIdle
    /\ ScopeIdle
    /\ PlotIdle
    /\ cfg \in {c \in ExampleSettings :
                  (c.decimal_dot = ",") = (c.exponent_char = "U")}
    /\ \E v \in ExampleValues :
         fmt = [pc |-> "render", v |-> v, editing |-> FALSE,
                copy |-> <<>>, buf |-> <<>>, ret |-> 0, passes |-> 0,
                r |-> NoPass]
    /\ prs = NoParse

SpecExamples == ExampleInit /\ [][FmtNext]_vars

----------------------------------------------------------------------------
(* Parsing source texts: OBJECT_PARSER_BODY(decimal128) on texts made of   *)
(* a sign, a mantissa, an exponent marker, an exponent sign, exponent      *)
(* digits, and the bytes that follow the text in memory                    *)

Ones(n) == [k \in 1..n |-> "1"]

Signs == {<<>>, <<"+">>, <<"-">>}

Mantissas ==
    {<<>>, <<"1">>, <<"1", "2">>, <<"1", ".", "5">>, <<"1", ",", "5">>,
     <<".">>, <<".", "5">>,
     Ones(BID128_MAXDIGITS - 1), Ones(BID128_MAXDIGITS),
     Ones(BID128_MAXDIGITS - 1) \o <<".", "5">>,
     <<"i", "n", "f">>, <<"N", "a", "N">>, Infinity}

Markers == {<<>>, <<"e">>, <<"E">>, <<"u1", "u2", "u3">>}

ExponentDigits ==
    {<<>>, <<"2">>, <<"6", "1", "4", "3">>, <<"6", "1", "4", "4">>,
     <<"6", "1", "4", "5">>}

\* Bytes found in memory after the text
Followers == {<<>>, <<"7">>}

SourceParts ==
    {q \in [sign : Signs, mantissa : Mantissas, marker : Markers,
            esign : Signs, edigits : ExponentDigits, after : Followers] :
       q.marker = <<>> => (q.esign = <<>> /\ q.edigits = <<>>)}

SourceText(q) == q.sign \o q.mantissa \o q.marker \o q.esign \o q.edigits

ParserSettings ==
    [display_mode : {"NORMAL"}, displayed : {0}, max_nonsci : {1},
     show_decimal : {FALSE}, decimal_dot : {".", ","},
     exponent_char : {"E", "U"}]

ParseInit ==
    /\ HeapIdle
    /\ CtorIdle
    /\ ScopeIdle
    /\ PlotIdle
    /\ cfg \in ParserSettings
    /\ fmt = [pc |-> "idle"]
    /\ \E q \in SourceParts, precedence \in {-1, 0} :
         prs = [pc |-> "source", parts |-> q,
                source |-> SourceText(q) \o q.after,
                length |-> Len(SourceText(q)), precedence |-> precedence,
                r |-> ParseResult("none", 0, <<>>, "none", 0),
                value |-> NaNValue]

\* The parser is run on p.source, p.length, p.precedence
ParseSource ==
    /\ prs.pc = "source"
    /\ LET r == object_parser(prs.source, prs.length, prs.precedence, cfg) IN
       prs' = [prs EXCEPT
                 !.pc = "returned",
                 !.r = r,
                 !.value = IF r.result = "OK" THEN bid128_from_string(r.out)
                           ELSE NaNValue]
    /\ UNCHANGED <<cfg, fmt, heapvars, ctorvars, scopevars, plotvars>>

SpecParse == ParseInit /\ [][ParseSource]_vars

----------------------------------------------------------------------------
(* Rendering of coefficients of up to BID128_MAXDIGITS digits, with large  *)
(* and small exponents, for display and for editing                        *)

\* 1234567890123456789012345678901234
LongCoef == [k \in 1..BID128_MAXDIGITS |-> DigitChar(k % 10)]

WideCoefs ==
    {<<"1">>, <<"1", "5">>, <<"9", "9">>, Ones(BID128_MAXDIGITS), LongCoef,
     [LongCoef EXCEPT ![BID128_MAXDIGITS] = "0"]}

WideExps ==
    {-(BID128_MAXDIGITS + 1), -BID128_MAXDIGITS, -2, 0, 1,
     BID128_MAXDIGITS - 1, BID128_MAXDIGITS}

WideValues == [nan : {FALSE}, neg : BOOLEAN, coef : WideCoefs, exp : WideExps]

WideDigits == {0, 1, BID128_MAXDIGITS - 1, BID128_MAXDIGITS}

WideSettings ==
    [display_mode : {"NORMAL", "FIX", "SCI", "ENG"},
     displayed    : WideDigits,
     max_nonsci   : WideDigits,
     show_decimal : BOOLEAN,
     decimal_dot  : {".", ","},
     exponent_char : {"E", "U"}]

WideInit ==
    /\ HeapIdle
    /\ CtorIdle
    /\ ScopeIdle
    /\ PlotIdle
    /\ cfg \in {c \in WideSettings :
                  (c.decimal_dot = ",") = (c.exponent_char = "U")}
    /\ \E v \in WideValues, editing \in BOOLEAN :
         fmt = [pc |-> "render", v |-> v, editing |-> editing,
                copy |-> <<>>, buf |-> <<>>, ret |-> 0, passes |-> 0,
                r |-> NoPass]
    /\ prs = NoParse

SpecWide == WideInit /\ [][FmtNext]_vars

----------------------------------------------------------------------------
(* Local variables: local::index, local::recall, local::store (locals.h)   *)
(* on the stack of active local frames kept by the runtime                 *)

\* LEB128: seven bits per byte, least significant group first, the high bit
\* set on every byte but the last
RECURSIVE leb128_write(_)
leb128_write(n) ==
    IF n < 128 THEN <<n>>
    ELSE <<128 + (n % 128)>> \o leb128_write(n \div 128)

RECURSIVE leb128_read(_, _)
leb128_read(p, k) ==
    IF p[k] >= 128 /\ k < Len(p)
    THEN (p[k] - 128) + 128 * leb128_read(p, k + 1)
    ELSE p[k] % 128

\* local(uint index, id type = ID_local)
local(index) == [type |-> "ID_local", payload |-> leb128_write(index)]

\* size_t index() const
local_index(l) == leb128_read(l.payload, 1)

\* The slot an index designates: the frames are walked from the innermost
\* (the last) outward, the name count of each frame passed is subtracted.
\* Result: frame 0 when the index is beyond the outermost frame.
RECURSIVE rt_local_slot(_, _, _)
rt_local_slot(fr, k, index) ==
    IF k = 0 THEN [frame |-> 0, slot |-> 0]
    ELSE IF index < Len(fr[k]) THEN [frame |-> k, slot |-> index + 1]
    ELSE rt_local_slot(fr, k - 1, index - Len(fr[k]))

NoSlot == [name |-> <<0, 0>>, value |-> "none"]

\* rt.local(index): the object bound at the slot, nullptr and an invalid
\* local error when there is none
rt_local(fr, index) ==
    LET at == rt_local_slot(fr, Len(fr), index) IN
    IF at.frame = 0
    THEN [ok |-> FALSE, err |-> "invalid_local_error", bound |-> NoSlot]
    ELSE [ok |-> TRUE, err |-> "none", bound |-> fr[at.frame][at.slot]]

\* rt.local(index, obj): rebinds the slot; false when there is none
rt_local_store(fr, index, obj) ==
    LET at == rt_local_slot(fr, Len(fr), index) IN
    IF at.frame = 0
    THEN [ok |-> FALSE, err |-> "invalid_local_error", frames |-> fr]
    ELSE [ok |-> TRUE, err |-> "none",
          frames |-> [fr EXCEPT ![at.frame][at.slot].value = obj]]

\* Faulty variant: the index is taken from the enclosing frame's point of view
local_recall_skipping(l, fr) == rt_local(fr, local_index(l) + 1)

\* object_p recall(runtime &rt = RT) const
local_recall(l, fr) == rt_local(fr, local_index(l))

\* bool store(gcobj obj, runtime &rt = RT) const
local_store(l, obj, fr) == rt_local_store(fr, local_index(l), obj)

\* Indices found in local objects: every index in scope, the first two
\* beyond it, and one that takes two LEB128 bytes
LocalIndices == 0..(MaxFrames * MaxNames + 1) \cup {128}
LocalValues == {"v0", "v1"}

\* A locals block is entered: its n names are bound, named here by the
\* depth of the frame and their position in it
EnterFrame ==
    /\ Len(frames) < MaxFrames
    /\ \E n \in 1..MaxNames :
         frames' = Append(frames,
                          [k \in 1..n |->
                             [name |-> <<Len(frames) + 1, k>>, value |-> "v0"]])
    /\ lres' = [op |-> "enter"]
    /\ UNCHANGED <<heapvars, ctorvars, textvars, plotvars>>

ExitFrame ==
    /\ frames # <<>>
    /\ frames' = SubSeq(frames, 1, Len(frames) - 1)
    /\ lres' = [op |-> "exit"]
    /\ UNCHANGED <<heapvars, ctorvars, textvars, plotvars>>

Recall ==
    /\ \E i \in LocalIndices :
         LET r == local_recall(local(i), frames) IN
         lres' = [op |-> "recall", index |-> i, ok |-> r.ok, err |-> r.err,
                  bound |-> r.bound]
    /\ UNCHANGED <<frames, heapvars, ctorvars, textvars, plotvars>>

Store ==
    /\ \E i \in LocalIndices, v \in LocalValues :
         LET r == local_store(local(i), v, frames) IN
         /\ frames' = r.frames
         /\ lres' = [op |-> "store", index |-> i, ok |-> r.ok, err |-> r.err,
                     bound |-> [name |-> <<0, 0>>, value |-> v]]
    /\ UNCHANGED <<heapvars, ctorvars, textvars, plotvars>>

LocalsInit ==
    /\ HeapIdle
    /\ CtorIdle
    /\ TextIdle
    /\ ScopeIdle
    /\ PlotIdle

LocalsNext == EnterFrame \/ ExitFrame \/ Recall \/ Store

SpecLocals == LocalsInit /\ [][LocalsNext]_vars

----------------------------------------------------------------------------
(* Plotting: PlotParameters::pixel_adjust, DrawFunctionPlot and Drax       *)
(* (graphics.cc). Values are integers; the screen is ScreenW by ScreenH    *)
(* pixels; a coord is a signed integer between -CoordMax and CoordMax.     *)

ScreenW == 4
ScreenH == 3
CoordMax == 3 * ScreenW

\* as_int32() of a quotient: the integer part, toward zero
TruncDiv(a, b) ==
    LET q == (IF a < 0 THEN -a ELSE a) \div (IF b < 0 THEN -b ELSE b)
    IN IF (a >= 0) = (b > 0) THEN q ELSE -q

NullObject == [kind |-> "null", val |-> 0]
IntegerObject(v) == [kind |-> "integer", val |-> v]
TextObject == [kind |-> "text", val |-> 0]

\* Convert an object to a coordinate
pixel_adjust(obj, min, max, scale, isSize) ==
    IF obj.kind = "null" THEN 0
    ELSE IF obj.kind = "integer"
    THEN LET range == IF max - min = 0 THEN 1 ELSE max - min
             pos   == IF isSize THEN obj.val ELSE obj.val - min
         IN TruncDiv(pos * scale, range)
    ELSE IF obj.kind = "based" THEN obj.val
    ELSE 0                                  \* rt.type_error()

pixel_x(ppar, xv) == pixel_adjust(xv, ppar.xmin, ppar.xmax, ScreenW, FALSE)
pixel_y(ppar, yv) == pixel_adjust(yv, ppar.ymin, ppar.ymax, ScreenH, FALSE)

\* Plot parameters: the ranges, the resolution, the origin and the ticks
PlotParameters ==
    [xmin : {0}, xmax : {-ScreenW, 0, ScreenW}, ymin : {0}, ymax : {ScreenH},
     resolution : {0, 1, 2}, xorigin : {0, 1}, yorigin : {0, 1},
     xticks : -1..2, yticks : -1..2]

(* DrawFunctionPlot *)

\* What an evaluation of eq can leave: a result in place of the argument
\* (a number or another object), or an error with the argument consumed or
\* still on the stack
EvalResults == {IntegerObject(0), IntegerObject(ScreenH), TextObject}
EvalOutcomes ==
    [err : {"OK"}, y : EvalResults, left : {0}]
    \cup [err : {"ERROR"}, y : {NullObject}, left : {0, 1}]

\* while (!program::interrupted())
loop_condition(flag) == ~flag

DrawInit ==
    /\ HeapIdle
    /\ CtorIdle
    /\ TextIdle
    /\ ScopeIdle
    /\ interrupted = FALSE
    /\ drax = [pc |-> "idle"]
    /\ \E pp \in PlotParameters, eq \in BOOLEAN, below \in 0..MaxStack :
         /\ pp.xticks = 1 /\ pp.yticks = 1 /\ pp.xorigin = 0 /\ pp.yorigin = 0
         /\ plot = [pc |-> "entry", ppar |-> pp, eq |-> eq,
                    entry |-> below,
                    stack |-> [k \in 1..below |-> TextObject],
                    step |-> 0, x |-> 0, rx |-> 0, lx |-> 0, ly |-> 0,
                    tested |-> FALSE, saw |-> FALSE, result |-> "none"]

\* step, x, eq, lx, ly
DrawEntry ==
    /\ plot.pc = "entry"
    /\ LET pp == plot.ppar
           p1 == [plot EXCEPT
                    !.step = IF pp.resolution = 0
                             THEN TruncDiv(pp.xmax - pp.xmin, ScreenW)
                             ELSE pp.resolution,
                    !.x = pp.xmin, !.lx = -1, !.ly = -1]
       IN plot' = IF plot.eq THEN [p1 EXCEPT !.pc = "test"]
                  ELSE [p1 EXCEPT !.pc = "returned", !.result = "ERROR"]
    /\ UNCHANGED <<interrupted, drax, heapvars, ctorvars, textvars, scopevars>>

\* The loop condition; when it is false, refresh_dirty() and return OK
LoopTest ==
    /\ plot.pc = "test"
    /\ plot' = IF loop_condition(interrupted)
               THEN [plot EXCEPT !.pc = "push", !.tested = TRUE,
                                 !.saw = interrupted]
               ELSE [plot EXCEPT !.pc = "returned", !.result = "OK",
                                 !.tested = TRUE, !.saw = interrupted]
    /\ UNCHANGED <<interrupted, drax, heapvars, ctorvars, textvars, scopevars>>

\* rx = ppar.pixel_x(x); if (!rt.push(x.Safe())) return object::ERROR
PushX ==
    /\ plot.pc = "push"
    /\ \E pushed \in BOOLEAN :
         plot' = IF pushed
                 THEN [plot EXCEPT
                         !.pc = "execute",
                         !.rx = pixel_x(plot.ppar, IntegerObject(plot.x)),
                         !.stack = Append(@, IntegerObject(plot.x))]
                 ELSE [plot EXCEPT !.pc = "returned", !.result = "ERROR"]
    /\ UNCHANGED <<interrupted, drax, heapvars, ctorvars, textvars, scopevars>>

\* err = eq->execute(); if (err != object::OK) return err
Execute ==
    /\ plot.pc = "execute"
    /\ \E e \in EvalOutcomes :
         LET below == SubSeq(plot.stack, 1, Len(plot.stack) - 1)
             p1    == [plot EXCEPT !.tested = FALSE]
         IN plot' = IF e.err = "OK"
                    THEN [p1 EXCEPT !.pc = "pop",
                                    !.stack = Append(below, e.y)]
                    ELSE [p1 EXCEPT !.pc = "returned", !.result = e.err,
                                    !.stack = IF e.left = 1 THEN @ ELSE below]
    /\ UNCHANGED <<interrupted, drax, heapvars, ctorvars, textvars, scopevars>>

\* y = rt.pop(), ry, the line from (lx, ly), x = x + step, the test of xmax
PopY ==
    /\ plot.pc = "pop"
    /\ LET y  == plot.stack[Len(plot.stack)]
           p1 == [plot EXCEPT
                    !.stack = SubSeq(@, 1, Len(@) - 1)]
       IN plot' = IF y.kind # "integer"
                  THEN [p1 EXCEPT !.pc = "returned", !.result = "ERROR"]
                  ELSE [p1 EXCEPT
                          !.lx = plot.rx,
                          !.ly = pixel_y(plot.ppar, y),
                          !.x  = plot.x + plot.step,
                          !.pc = IF plot.x + plot.step > plot.ppar.xmax
                                 THEN "returned" ELSE "test",
                          !.result = IF plot.x + plot.step > plot.ppar.xmax
                                     THEN "OK" ELSE @]
    /\ UNCHANGED <<interrupted, drax, heapvars, ctorvars, textvars, scopevars>>

\* The flag is set from outside, at any time, and stays set
Interrupt ==
    /\ ~interrupted
    /\ plot.pc # "returned"
    /\ interrupted' = TRUE
    /\ UNCHANGED <<plot, drax, heapvars, ctorvars, textvars, scopevars>>

DrawFunctionPlot == DrawEntry \/ LoopTest \/ PushX \/ Execute \/ PopY

DrawNext == DrawFunctionPlot \/ Interrupt

\* Every step of DrawFunctionPlot is taken in the end: the program runs and
\* each evaluation returns
SpecDraw == DrawInit /\ [][DrawNext]_vars /\ WF_vars(DrawFunctionPlot)

(* Drax *)

\* A coord computation whose result does not fit is undefined: any value
Fit(v) ==
    IF v \in (-CoordMax)..CoordMax THEN {v} ELSE (-CoordMax)..CoordMax

DraxInit ==
    /\ HeapIdle
    /\ CtorIdle
    /\ TextIdle
    /\ ScopeIdle
    /\ interrupted = FALSE
    /\ plot = [pc |-> "idle"]
    /\ \E pp \in PlotParameters :
         /\ pp.resolution = 0
         /\ pp.xmax # 0
         /\ drax = [pc |-> "entry", ppar |-> pp, x |-> 0, y |-> 0,
                    tx |-> 0, ty |-> 0, i |-> 0]

\* x, y, the axes, tx, ty, if (tx), and the start of the first loop
DraxEntry ==
    /\ drax.pc = "entry"
    /\ LET pp == drax.ppar
           tx == pixel_adjust(IntegerObject(pp.xticks), pp.xmin, pp.xmax,
                              ScreenW, TRUE)
           ty == pixel_adjust(IntegerObject(pp.yticks), pp.ymin, pp.ymax,
                              ScreenH, TRUE)
       IN drax' = [drax EXCEPT
                     !.x  = pixel_adjust(IntegerObject(pp.xorigin), pp.xmin,
                                         pp.xmax, ScreenW, FALSE),
                     !.y  = pixel_adjust(IntegerObject(pp.yorigin), pp.ymin,
                                         pp.ymax, ScreenH, FALSE),
                     !.tx = tx, !.ty = ty, !.i = tx,
                     !.pc = IF tx # 0 THEN "right" ELSE "arrows"]
    /\ UNCHANGED <<plot, interrupted, heapvars, ctorvars, textvars, scopevars>>

\* One test of a for loop that draws ticks, the tick being at position
\* pos and the loop going on while it is at least min and at most max: one
\* more tick and i += t, or the start of the next loop at pc2 with i = t2
tick_loop(pos, min, max, t, pc2, t2) ==
    UNION {IF min <= p /\ p <= max
           THEN {[drax EXCEPT !.i = i2] : i2 \in Fit(drax.i + t)}
           ELSE {[drax EXCEPT !.pc = pc2, !.i = t2]} : p \in Fit(pos)}

\* for (coord i = tx; x + i <= w; i += tx)
TicksRight ==
    /\ drax.pc = "right"
    /\ drax' \in tick_loop(drax.x + drax.i, -CoordMax, ScreenW, drax.tx,
                           "left", drax.tx)
    /\ UNCHANGED <<plot, interrupted, heapvars, ctorvars, textvars, scopevars>>

\* for (coord i = tx; x - i >= 0; i += tx)
TicksLeft ==
    /\ drax.pc = "left"
    /\ drax' \in tick_loop(drax.x - drax.i, 0, CoordMax, drax.tx,
                           "up", drax.ty)
    /\ UNCHANGED <<plot, interrupted, heapvars, ctorvars, textvars, scopevars>>

\* for (coord i = ty; y + i <= h; i += ty)
TicksUp ==
    /\ drax.pc = "up"
    /\ drax' \in tick_loop(drax.y + drax.i, -CoordMax, ScreenH, drax.ty,
                           "down", drax.ty)
    /\ UNCHANGED <<plot, interrupted, heapvars, ctorvars, textvars, scopevars>>

\* for (coord i = ty; y - i >= 0; i += ty)
TicksDown ==
    /\ drax.pc = "down"
    /\ drax' \in tick_loop(drax.y - drax.i, 0, CoordMax, drax.ty,
                           "arrows", 0)
    /\ UNCHANGED <<plot, interrupted, heapvars, ctorvars, textvars, scopevars>>

\* Draw arrows at end of axes; return OK
DraxArrows ==
    /\ drax.pc = "arrows"
    /\ drax' = [drax EXCEPT !.pc = "returned"]
    /\ UNCHANGED <<plot, interrupted, heapvars, ctorvars, textvars, scopevars>>

DraxNext ==
    DraxEntry \/ TicksRight \/ TicksLeft \/ TicksUp \/ TicksDown \/ DraxArrows

\* Drax runs: a step that is possible is taken in the end
SpecDrax == DraxInit /\ [][DraxNext]_vars /\ WF_vars(DraxNext)

----------------------------------------------------------------------------
(* Properties of the promotions *)

LadderIds == {"ID_integer", "ID_neg_integer", "ID_bignum", "ID_neg_bignum",
              "ID_decimal32", "ID_decimal64", "ID_decimal128"}

\* Position on the ladder: machine integer < arbitrary-precision integer
\* < decimal32 < decimal64 < decimal128
Level(t) ==
    CASE t \in {"ID_integer", "ID_neg_integer"} -> 1
      [] t \in {"ID_bignum", "ID_neg_bignum"}   -> 2
      [] t = "ID_decimal32"                     -> 3
      [] t = "ID_decimal64"                     -> 4
      [] t = "ID_decimal128"                    -> 5
      [] OTHER                                  -> 0

RealPromotionOps == {"promote_to", "auto_promote"}
PromotionOps == RealPromotionOps \cup {"promote_to_bignum"}

\* The last call was made on a real object (x was not null on entry)
OnObject == last.srcAddr # 0

\* C1: when promote_to converts a bignum or neg_bignum to a decimal kind, the
\* decimal is built from the source's own magnitude bytes and tag, also when
\* the allocation relocated the source; the source is never read through an
\* address taken before the allocation that the collector did not rewrite.
C1_PromotionReadsSource ==
    (/\ last.op \in RealPromotionOps
     /\ OnObject
     /\ last.src.type \in {"ID_bignum", "ID_neg_bignum"}
     /\ last.allocated)
    => /\ ~last.stale
       /\ heap[x] = Obj(last.target, HornerLoop(last.src.bytes, 0, 0),
                        last.src.type = "ID_neg_bignum", <<>>)

\* C3: after a promote_to(x, K) that succeeded, a second promote_to(., K)
\* succeeds, allocates nothing and leaves x on the same object of kind K.
C3_PromotionIdempotent ==
    [][(/\ last.op = "promote_to"
        /\ last.ok
        /\ last'.op = "promote_to"
        /\ last'.target = last.target)
       => (/\ last'.ok
           /\ ~last'.allocated /\ ~last'.oom
           /\ x' = x /\ x' # 0
           /\ heap' = heap
           /\ heap'[x'].type = last.target)]_vars

\* C4: an operand of ladder kind K1 promoted to a ladder kind K2 at least as
\* wide (promote_to for a decimal K2, promote_to_bignum for an
\* arbitrary-precision K2) succeeds and is then of kind K2.
C4_LadderMonotonic ==
    /\ (/\ last.op = "promote_to"
        /\ OnObject
        /\ last.src.type \in LadderIds
        /\ last.target \in DecimalIds
        /\ Level(last.src.type) <= Level(last.target))
       => (last.ok /\ x # 0 /\ heap[x].type = last.target)
    /\ (/\ last.op = "promote_to_bignum"
        /\ OnObject
        /\ last.src.type \in LadderIds
        /\ Level(last.src.type) <= 2)
       => (x # 0 /\ Level(heap[x].type) = 2 /\ Level(last.ret) = 2)

\* (source kind, target kind) is a widening on the ladder to a decimal kind
Widening(s, K) ==
    s \in LadderIds /\ K \in DecimalIds /\ Level(s) < Level(K)

\* C5: promote_to changes the kind of x only to a strictly wider ladder kind;
\* for every other pair with kind(x) # K it returns failure, leaves x on the
\* same object and allocates nothing.
C5_OnlyWidening ==
    [][(last'.op = "promote_to" /\ x # 0 /\ ~fault')
       => LET s == heap[x].type
              K == last'.target
          IN /\ (s # K /\ ~Widening(s, K))
                => (/\ ~last'.ok /\ last'.ret = "false"
                    /\ x' = x /\ heap' = heap /\ stack' = stack
                    /\ ~last'.allocated /\ ~last'.oom)
             /\ (x' # 0 /\ heap'[x'].type # s)
                => (Widening(s, K) /\ heap'[x'].type = K)]_vars

\* Witness of C5: a refused narrowing, decimal64 to decimal32
C5_Witness ==
    /\ last.op = "promote_to"
    /\ OnObject
    /\ last.src.type = "ID_decimal64"
    /\ last.target = "ID_decimal32"
    /\ ~last.ok

\* C6: a failed allocation inside a promotion is reported as failure, and a
\* promotion that reports success leaves x on a valid object of that kind.
C6_OomReported ==
    (last.op \in PromotionOps /\ OnObject)
    => /\ last.oom => last.ret \in {"false", "ID_object"}
       /\ last.ret \notin {"false", "ID_object"}
          => (/\ x # 0
              /\ heap[x].type = (IF last.op = "promote_to"
                                 THEN last.target ELSE last.ret))

\* C7 as stated: auto_promote on any ladder kind returns the chosen decimal
\* kind, never the failure kind, and x then has that kind.
C7_AutoPromoteTotal ==
    (last.op = "auto_promote" /\ OnObject /\ last.src.type \in LadderIds)
    => /\ last.ret = last.target
       /\ last.ret # "ID_object"
       /\ x # 0
       /\ heap[x].type = last.ret

\* C7 amended: auto_promote returns the chosen decimal kind exactly when the
\* kind of x is not wider than it; x then has that kind unless the allocation
\* failed, in which case x is null; for a wider decimal it returns the
\* failure kind and leaves x on the same object.
C7_AutoPromoteUpward ==
    (last.op = "auto_promote" /\ OnObject /\ last.src.type \in LadderIds)
    => IF Level(last.src.type) <= Level(last.target)
       THEN /\ last.ret = last.target
            /\ (x = 0) = last.oom
            /\ x # 0 => heap[x].type = last.target
       ELSE /\ last.ret = "ID_object"
            /\ x = last.srcAddr
            /\ heap[x] = last.src
            /\ ~last.allocated /\ ~last.oom

\* Witness of C7: a decimal128 value refused under a precision selecting
\* decimal64
C7_Witness ==
    /\ last.op = "auto_promote"
    /\ OnObject
    /\ last.src.type = "ID_decimal128"
    /\ last.target = "ID_decimal64"
    /\ last.ret = "ID_object"

\* C8: the kind auto_promote selects is decimal128 exactly when precision >
\* BID64_MAXDIGITS, decimal64 exactly when BID32_MAXDIGITS < precision <=
\* BID64_MAXDIGITS, decimal32 otherwise, whatever the value promoted.
C8_AutoTypeFromPrecision ==
    last.op = "auto_promote"
    => /\ (last.target = "ID_decimal128") = (precision > 16)
       /\ (last.target = "ID_decimal64") = (7 < precision /\ precision <= 16)
       /\ (last.target = "ID_decimal32") = (precision <= 7)
       /\ last.ret \in {last.target, "ID_object", "trap"}

\* Witness of C8: a promotion at the boundary precision BID64_MAXDIGITS
C8_Witness ==
    /\ last.op = "auto_promote"
    /\ precision = 16
    /\ last.ret = "ID_decimal64"
    /\ x # 0
    /\ heap[x].type = "ID_decimal64"

\* The arbitrary-precision kind with the same base or sign tag
SameTagBignum(t) ==
    CASE t = "ID_hex_integer"   -> "ID_hex_bignum"
      [] t = "ID_dec_integer"   -> "ID_dec_bignum"
      [] t = "ID_oct_integer"   -> "ID_oct_bignum"
      [] t = "ID_bin_integer"   -> "ID_bin_bignum"
      [] t = "ID_based_integer" -> "ID_based_bignum"
      [] t = "ID_neg_integer"   -> "ID_neg_bignum"
      [] t = "ID_integer"       -> "ID_bignum"

\* C9: promote_to_bignum replaces a fixed-width integer by a new object of
\* the arbitrary-precision kind with the same tag and returns that kind; an
\* arbitrary-precision x is left on the same object, nothing is allocated.
C9_BignumPromotion ==
    (last.op = "promote_to_bignum" /\ OnObject)
    => /\ last.src.type \in IntegerIds
          => (/\ last.ret = SameTagBignum(last.src.type)
              /\ x # 0
              /\ heap[x].type = last.ret)
       /\ last.src.type \in BignumIds
          => (/\ last.ret = last.src.type
              /\ x = last.srcAddr
              /\ heap[x] = last.src
              /\ ~last.allocated /\ ~last.oom)

RECURSIVE Pow256(_)
Pow256(k) == IF k = 0 THEN 1 ELSE 256 * Pow256(k - 1)

RECURSIVE SumBytes(_, _)
SumBytes(n, k) ==
    IF k > Len(n) THEN 0 ELSE n[k] * Pow256(k - 1) + SumBytes(n, k + 1)

----------------------------------------------------------------------------
(* Properties of rendering and parsing *)

RECURSIVE Pow10(_)
Pow10(k) == IF k = 0 THEN 1 ELSE 10 * Pow10(k - 1)

RECURSIVE CoefInt(_, _)
CoefInt(coef, acc) ==
    IF coef = <<>> THEN acc
    ELSE CoefInt(Tail(coef), acc * 10 + DigitVal(Head(coef)))

\* The number q * 10^e in lowest terms (q not a multiple of 10, zero as 0)
RECURSIVE Reduced(_, _, _)
Reduced(neg, q, e) ==
    IF q = 0 THEN [neg |-> FALSE, q |-> 0, e |-> 0]
    ELSE IF q % 10 = 0 THEN Reduced(neg, q \div 10, e + 1)
    ELSE [neg |-> neg, q |-> q, e |-> e]

Number(v) == Reduced(v.neg, CoefInt(v.coef, 0), v.exp)

\* v rounded half away from zero to k significant digits (k = 0: to the
\* place above its first digit)
RoundSig(v, k) ==
    LET q    == CoefInt(v.coef, 0)
        drop == Len(v.coef) - k
    IN IF drop <= 0 THEN Number(v)
       ELSE LET unit == Pow10(drop)
                kept == q \div unit
                up   == 2 * (q % unit) >= unit
            IN Reduced(v.neg, IF up THEN kept + 1 ELSE kept, v.exp + drop)

\* C2: parsing the text decimal_format produced for a finite value v returns
\* OK with a value equal to v rounded to the precision displayed (v rounded
\* to some number k of significant digits, k = 0 when only zeros are shown).
C2_RoundTrip ==
    prs.pc = "parsed"
    => /\ prs.r.result = "OK"
       /\ ~prs.value.nan
       /\ \E k \in 0..Len(fmt.v.coef) : Number(prs.value) = RoundSig(fmt.v, k)

----------------------------------------------------------------------------
(* Properties of local variables *)

\* All the slots in scope, innermost frame first
RECURSIVE InScope(_)
InScope(fr) ==
    IF fr = <<>> THEN <<>>
    ELSE fr[Len(fr)] \o InScope(SubSeq(fr, 1, Len(fr) - 1))

\* C11: an index resolves to the slot found by walking the frames from the
\* innermost outward (the index-th slot of the frames laid end to end,
\* innermost first); with an outer frame of two names X, Y and an inner frame
\* of two names A, B, indices 0, 1, 2, 3 are A, B, X, Y; an index at or
\* beyond the number of names in scope is an invalid local error, no value.
C11_LocalScoping ==
    lres.op = "recall"
    => /\ lres.index < Len(InScope(frames))
          => /\ lres.ok
             /\ lres.bound = InScope(frames)[lres.index + 1]
       /\ lres.index >= Len(InScope(frames))
          => /\ ~lres.ok
             /\ lres.err = "invalid_local_error"
             /\ lres.bound = NoSlot
       /\ (Len(frames) = 2 /\ Len(frames[1]) = 2 /\ Len(frames[2]) = 2)
          => \/ lres.index = 0 /\ lres.bound.name = <<2, 1>>
             \/ lres.index = 1 /\ lres.bound.name = <<2, 2>>
             \/ lres.index = 2 /\ lres.bound.name = <<1, 1>>
             \/ lres.index = 3 /\ lres.bound.name = <<1, 2>>
             \/ lres.index >= 4 /\ ~lres.ok

\* Index 3 of X, Y then A, B resolved to Y, after a store to it
C11_Witness ==
    /\ lres.op = "recall"
    /\ Len(frames) = 2 /\ Len(frames[1]) = 2 /\ Len(frames[2]) = 2
    /\ lres.index = 3
    /\ lres.bound = [name |-> <<1, 2>>, value |-> "v1"]

----------------------------------------------------------------------------
(* Properties of decimal_format *)

AllNines(coef) == \A k \in 1..Len(coef) : coef[k] = "9"

\* C12: the rounding restart of decimal_format happens at most once per
\* call: the pass over the replacement text never reaches the overflow
\* branch, so the loop ends after at most two passes, also for values with
\* several leading nines.
C12_SingleRestart ==
    /\ fmt.pc \in {"pass", "done"} => fmt.passes <= 2
    /\ fmt.passes = 2 => (fmt.pc = "done" /\ ~fmt.r.overflow)

\* A value with several leading nines was formatted in two passes
C12_Witness ==
    /\ fmt.pc = "done"
    /\ fmt.passes = 2
    /\ Len(fmt.v.coef) >= 2
    /\ AllNines(fmt.v.coef)

Nines == Value(FALSE, <<"9", "9", "9", "9", "9">>, -4)

\* 9.9999 formatted in standard mode with 4 significant digits
NinesCase ==
    /\ fmt.pc = "done"
    /\ fmt.v = Nines
    /\ cfg.display_mode = "NORMAL"
    /\ cfg.displayed = 4

\* C13: formatting 9.9999 with 4 significant digits takes the rounding
\* overflow path (restart with a single 1 and exponent + 1) and the text
\* produced is exactly 1.E1.
C13_NinesText ==
    NinesCase
    => /\ fmt.passes = 2
       /\ fmt.copy = <<"+", "1", "E", "1">>
       /\ fmt.buf = <<"1", ".", "E", "1">>

\* C13 as amended: the overflow path is taken and the text is that of 10
\* under the settings: 1E1 with the separator only if show_decimal is set
\* when the non-scientific threshold is at most 1, and 10 followed by the
\* separator otherwise.
C13_NinesRestart ==
    NinesCase
    => /\ fmt.passes = 2
       /\ fmt.copy = <<"+", "1", "E", "1">>
       /\ fmt.buf = IF cfg.max_nonsci <= 1
                    THEN <<"1">>
                         \o (IF cfg.show_decimal THEN <<cfg.decimal_dot>>
                             ELSE <<>>)
                         \o utf8_encode(cfg.exponent_char) \o <<"1">>
                    ELSE <<"1", "0", cfg.decimal_dot>>
       /\ fmt.ret = Len(fmt.buf)

\* 9.9999 with 4 digits and the default kind of threshold: the text is 10.
C13_Witness ==
    /\ NinesCase
    /\ cfg.max_nonsci = 12
    /\ ~cfg.show_decimal
    /\ fmt.buf = <<"1", "0", ".">>

\* The text before the exponent marker, and the digits in a text
Mantissa(t) ==
    LET e == utf8_encode(cfg.exponent_char)[1] IN
    IF strchr(t, e) = 0 THEN t ELSE SubSeq(t, 1, strchr(t, e) - 1)

Digits(t) == SelectSeq(t, IsDigit)

RECURSIVE ZeroPadded(_, _)
ZeroPadded(d, n) == IF Len(d) >= n THEN d ELSE ZeroPadded(Append(d, "0"), n)

SciCase ==
    /\ fmt.pc = "done"
    /\ ~fmt.editing
    /\ cfg.display_mode = "SCI"

OneTwoThreeFortyFive == Value(FALSE, <<"1", "2", "3", "4", "5">>, -2)

SciText(v, n) ==
    LET d == ZeroPadded(UDecimal(RoundSig(v, n + 1).q), n + 1) IN
    (IF v.neg THEN <<"-">> ELSE <<>>)
    \o <<d[1], cfg.decimal_dot>> \o SubSeq(d, 2, n + 1)
    \o utf8_encode(cfg.exponent_char)
    \o PrintInt(v.exp + Len(v.coef) - 1)

IntegerCase ==
    /\ fmt.pc = "done"
    /\ ~fmt.editing
    /\ fmt.v \in {Value(FALSE, <<"1", "2", "3">>, 0),
                  Value(FALSE, <<"1", "2", "3", "0">>, -1)}
    /\ cfg.display_mode = "NORMAL"
    /\ cfg.displayed >= 3
    /\ cfg.max_nonsci > 2

\* C15: in standard mode 123 formats as exactly 123, with no trailing
\* separator, for either text form of the engine and every setting with at
\* least 3 digits displayed and a non-scientific threshold above 2.
C15_IntegerNoSeparator ==
    IntegerCase => (fmt.buf = <<"1", "2", "3">> /\ fmt.ret = 3)

\* C15 as amended: the text is 123, followed by the separator exactly when
\* the show-decimal setting is on.
C15_IntegerSeparatorIfShown ==
    IntegerCase
    => /\ fmt.buf = <<"1", "2", "3">>
                    \o (IF cfg.show_decimal THEN <<cfg.decimal_dot>> ELSE <<>>)
       /\ fmt.ret = Len(fmt.buf)
       /\ fmt.passes = 1

C15_Witness ==
    /\ IntegerCase
    /\ fmt.v.coef = <<"1", "2", "3", "0">>
    /\ ~cfg.show_decimal
    /\ fmt.buf = <<"1", "2", "3">>

\* The effective exponent of v (that of its first digit), the digits of its
\* coefficient without the trailing zeros, its leading fractional zeros
EffectiveExp(v) == v.exp + Len(v.coef) - 1
SigDigits(v) == Len(UDecimal(Number(v).q))
FractionZeros(v) == -EffectiveExp(v) - 1

\* The text has an exponent
HasExponent(t) == strchr(t, utf8_encode(cfg.exponent_char)[1]) # 0

\* A value formatted in one pass, with the settings in force
OnePass == fmt.pc = "done" /\ fmt.passes = 1
InForce ==
    [mode       |-> IF fmt.editing THEN "NORMAL" ELSE cfg.display_mode,
     digits     |-> IF fmt.editing THEN 34 ELSE cfg.displayed,
     max_nonsci |-> IF fmt.editing THEN 34 ELSE cfg.max_nonsci]

Smaller(a, b) == IF a < b THEN a ELSE b

TextExponent(t) ==
    LET e == utf8_encode(cfg.exponent_char) IN
    atoi(t, strchr(t, e[1]) + Len(e))

IntegerPart(t) ==
    LET m == Mantissa(t) IN
    IF strchr(m, cfg.decimal_dot) = 0 THEN Digits(m)
    ELSE Digits(SubSeq(m, 1, strchr(m, cfg.decimal_dot) - 1))

\* The largest multiple of 3 that does not exceed e
EngExponent(e) == 3 * (IF e >= 0 THEN e \div 3 ELSE -((2 - e) \div 3))

\* C17: in engineering mode, for every effective exponent e, the displayed
\* exponent is the largest multiple of 3 that does not exceed e, and the
\* decimal point is moved right by e minus that exponent (0, 1 or 2 places):
\* that many digits more stand before it. (Stated for the values other than
\* zero.)
C17_EngineeringShift ==
    (OnePass /\ InForce.mode = "ENG" /\ fmt.v.coef # <<"0">>)
    => /\ HasExponent(fmt.buf)
       /\ TextExponent(fmt.buf) = EngExponent(EffectiveExp(fmt.v))
       /\ EffectiveExp(fmt.v) - TextExponent(fmt.buf) \in 0..2
       /\ Len(IntegerPart(fmt.buf))
          = 1 + EffectiveExp(fmt.v) - TextExponent(fmt.buf)

\* The characters after the separator (none when there is no separator)
FractionPart(t) ==
    LET m == Mantissa(t) IN
    IF strchr(m, cfg.decimal_dot) = 0 THEN <<>>
    ELSE SubSeq(m, strchr(m, cfg.decimal_dot) + 1, Len(m))

HasSeparator(t) == strchr(Mantissa(t), cfg.decimal_dot) # 0

\* The digits the value has after the decimal point
FractionDigits(v) == IF Number(v).e < 0 THEN -Number(v).e ELSE 0

\* C18: in fixed mode with digit setting n every value shown without an
\* exponent has a decimal separator followed by exactly n digits (1 with
\* n = 3 gives 1.000), whatever show_decimal is; in standard mode no zero is
\* appended after the decimal-point position (no more digits follow the
\* separator than the value has).
C18_TrailingZeros ==
    (fmt.pc = "done" /\ ~fmt.editing /\ ~HasExponent(fmt.buf))
    => /\ cfg.display_mode = "FIX"
          => /\ HasSeparator(fmt.buf)
             /\ Len(FractionPart(fmt.buf)) = cfg.displayed
             /\ Digits(FractionPart(fmt.buf)) = FractionPart(fmt.buf)
       /\ (cfg.display_mode = "NORMAL" /\ fmt.v.coef # <<"0">>)
          => Len(FractionPart(fmt.buf)) <= FractionDigits(fmt.v)

----------------------------------------------------------------------------
(* Properties of the parser *)

\* The exponent marker of the text is one the parser recognizes
KnownMarker(q) ==
    \/ q.marker \in {<<"e">>, <<"E">>}
    \/ q.marker = utf8_encode(cfg.exponent_char)

\* Digits of the mantissa, without the decimal mark
MantissaDigits(q) == Len(Digits(q.mantissa))

\* A mantissa, an exponent marker, an optional sign and no exponent digit
NoExponentDigits ==
    /\ prs.pc = "returned"
    /\ MantissaDigits(prs.parts) >= 1
    /\ KnownMarker(prs.parts)
    /\ prs.parts.edigits = <<>>

\* ERROR, an exponent error at the place of the missing digits, no object
ExponentError ==
    /\ prs.r.result = "ERROR"
    /\ prs.r.err = "exponent_error"
    /\ prs.r.errpos = Len(prs.parts.sign) + Len(prs.parts.mantissa)
                      + Len(prs.parts.marker) + Len(prs.parts.esign) + 1
    /\ ~prs.r.made

\* C19: for every input in which the mantissa is followed by an exponent
\* marker, an optional sign and no exponent digit, the parser returns ERROR,
\* records an exponent error where the digits were expected and produces no
\* object.
C19_ExponentWithoutDigits ==
    NoExponentDigits => ExponentError

\* C19 as amended: unless the text begins with a sign in an infix context
\* (SKIP) or its mantissa has 34 digits or more (WARN).
C19_ExponentWithoutDigitsChecked ==
    (/\ NoExponentDigits
     /\ ~(prs.parts.sign # <<>> /\ prs.precedence < 0)
     /\ MantissaDigits(prs.parts) < BID128_MAXDIGITS)
    => ExponentError

\* 1e was parsed
C19_Witness ==
    /\ NoExponentDigits
    /\ SourceText(prs.parts) = <<"1", "e">>
    /\ ExponentError
    /\ prs.r.errpos = 3

\* The exponent written in the text
ExponentValue(q) ==
    IF q.esign = <<"-">> THEN -CoefInt(q.edigits, 0) ELSE CoefInt(q.edigits, 0)

\* A well-formed exponent outside the range of the width
ExponentOutOfRange(q) ==
    /\ KnownMarker(q)
    /\ q.edigits # <<>>
    /\ (ExponentValue(q) < -6143 \/ ExponentValue(q) > 6144)

\* Position in m of its n-th digit
RECURSIVE DigitPosition(_, _, _)
DigitPosition(m, n, k) ==
    IF IsDigit(m[k])
    THEN (IF n = 1 THEN k ELSE DigitPosition(m, n - 1, k + 1))
    ELSE DigitPosition(m, n, k + 1)

InfixSign == prs.parts.sign # <<>> /\ prs.precedence < 0

\* C20: the parser returns WARN and produces no object whenever the mantissa
\* has at least 34 digits, counted without the decimal mark, with the error
\* located at the 34th digit, inside the source, and whenever a well-formed
\* exponent is below -6143 or above 6144; with at most 33 digits and an
\* exponent in range it never returns WARN. (Stated for the texts that are
\* not a signed number in an infix context and that end on a NUL.)
C20_WarnOnWidth ==
    (prs.pc = "returned" /\ ~InfixSign /\ prs.parts.after = <<>>)
    => /\ MantissaDigits(prs.parts) >= BID128_MAXDIGITS
          => /\ prs.r.result = "WARN"
             /\ ~prs.r.made
             /\ prs.r.err = "mantissa_error"
             /\ prs.r.errpos = Len(prs.parts.sign)
                               + DigitPosition(prs.parts.mantissa,
                                               BID128_MAXDIGITS, 1)
             /\ prs.r.errpos <= prs.length
       /\ (/\ MantissaDigits(prs.parts) \in 1..(BID128_MAXDIGITS - 1)
           /\ ExponentOutOfRange(prs.parts))
          => /\ prs.r.result = "WARN"
             /\ ~prs.r.made
             /\ prs.r.err = "exponent_range_error"
       /\ (/\ MantissaDigits(prs.parts) < BID128_MAXDIGITS
           /\ ~ExponentOutOfRange(prs.parts))
          => prs.r.result # "WARN"

\* The names of special values the parser recognizes
SpecialNames == {<<"i", "n", "f">>, <<"N", "a", "N">>, Infinity}

\* SKIP, no object, no error
Skipped ==
    /\ prs.r.result = "SKIP"
    /\ ~prs.r.made
    /\ prs.r.err = "none"

\* C21: the parser returns SKIP, with no object and no error, when the text
\* starts with a sign in an infix context, and when the text after its
\* optional sign has no mantissa digit and does not begin with inf, the
\* infinity sign or NaN; a decimal mark alone, or followed by an exponent,
\* is SKIP.
C21_SkipNotANumber ==
    prs.pc = "returned"
    => /\ InfixSign => Skipped
       /\ (/\ MantissaDigits(prs.parts) = 0
           /\ prs.parts.mantissa \notin SpecialNames)
          => Skipped

\* The characters of the internal ASCII form of a number
InternalChars == Range(DigitChars) \cup {"+", "-", ".", "E", "e"}

HasMark(t) == \E k \in 1..Len(t) : t[k] \in {".", ","}

\* C22: whenever the parser returns OK, the text handed to the decimal
\* engine is in the internal ASCII form, for every value of the decimal mark
\* and exponent character settings: the decimal mark accepted ('.' or ',')
\* is written '.', the exponent marker E or e. (Stated for the texts that
\* are numbers, not names of special values.)
C22_InternalForm ==
    (/\ prs.pc = "returned"
     /\ prs.r.result = "OK"
     /\ prs.parts.mantissa \notin SpecialNames)
    => /\ \A k \in 1..Len(prs.r.out) : prs.r.out[k] \in InternalChars
       /\ HasMark(prs.parts.mantissa)
          => \E k \in 1..Len(prs.r.out) : prs.r.out[k] = "."

\* The coefficient digits the first pass copied before it rounded
ShownDigits == SubSeq(fmt.v.coef, 1, fmt.r.shown)

\* The first pass has just ended in the rounding restart
Restarted == fmt.pc = "pass" /\ fmt.passes = 1 /\ fmt.r.overflow

\* C24: the rounding restart of decimal_format is taken only when every
\* displayed digit before rounding is 9; for any other value, positive or
\* negative, the carry stops at a displayed digit that is incremented in
\* place, the first displayed digit included.
C24_RestartOnlyOnNines ==
    Restarted => AllNines(ShownDigits)

\* A digit string without its leading and its trailing zeros
RECURSIVE Significant(_)
Significant(d) ==
    IF d = <<>> THEN d
    ELSE IF d[1] = "0" THEN Significant(Tail(d))
    ELSE IF d[Len(d)] = "0" THEN Significant(SubSeq(d, 1, Len(d) - 1))
    ELSE d

\* The settings the editing flag stands for
EditingSettings ==
    [cfg EXCEPT !.display_mode = "NORMAL", !.displayed = BID128_MAXDIGITS,
                !.max_nonsci = BID128_MAXDIGITS]

\* C25: with the editing flag set, decimal_format behaves as standard mode
\* with 34 for the digit count and for the non-scientific threshold,
\* whatever display_mode, displayed and max_nonsci are; it never rounds and
\* never drops a digit: every digit of the coefficient (up to 34 digits,
\* trailing zeros stripped) is in the output.
C25_EditingShowsAllDigits ==
    (fmt.pc = "done" /\ fmt.editing)
    => /\ fmt.passes = 1
       /\ fmt.r = format_pass(bid128_to_string(fmt.v),
                              bid128_to_string(fmt.v), EditingSettings, FALSE)
       /\ ~fmt.r.rounded
       /\ Significant(Digits(Mantissa(fmt.buf))) = Significant(fmt.v.coef)

\* A 34-digit coefficient was formatted for editing while the display
\* settings asked for scientific mode with one digit
C25_Witness ==
    /\ fmt.pc = "done"
    /\ fmt.editing
    /\ fmt.v.coef = LongCoef
    /\ fmt.v.exp = -2
    /\ cfg.display_mode = "SCI"
    /\ cfg.displayed = 1
    /\ cfg.max_nonsci = 0
    /\ Digits(fmt.buf) = LongCoef

\* C26: for every engine text of a 34-digit value and every combination of
\* settings, the characters decimal_format writes, the terminating NUL
\* included, stay within the MAXBIDCHAR bytes of the buffer it is given.
C26_WithinBuffer ==
    fmt.pc \in {"pass", "done"} => Len(fmt.r.text) + 1 <= MAXBIDCHAR

\* C27: the outcome of parse (result code, updated cursor, value) depends
\* only on the first length bytes of the source: the source followed by
\* other bytes gives the outcome of the source alone, and on OK the updated
\* cursor end is at most length. (Stated for the sources with at least one
\* mantissa digit.)
C27_OnlyFirstLengthBytes ==
    (prs.pc = "returned" /\ MantissaDigits(prs.parts) > 0)
    => /\ prs.r = object_parser(SourceText(prs.parts), prs.length,
                                prs.precedence, cfg)
       /\ prs.r.result = "OK" => prs.r.end <= prs.length

----------------------------------------------------------------------------
(* Properties of the plots *)

\* An evaluation of the plotted expression is about to start or running
Evaluating == plot.pc \in {"push", "execute"}

\* The function plot was cancelled: it returned while the flag was set
Cancelled == plot.pc = "returned" /\ interrupted

\* C23: DrawFunctionPlot tests the interrupt flag before every evaluation
\* of the plotted expression; once a test has found the flag set no
\* evaluation is started, and when the flag is set and stays set (each
\* evaluation returning) DrawFunctionPlot returns with the evaluation stack
\* at the depth it had on entry.
C23_Cancellation ==
    /\ Evaluating => (plot.tested /\ ~plot.saw)
    /\ Cancelled => Len(plot.stack) = plot.entry

\* C23, the part about time: once the flag is set DrawFunctionPlot returns
C23_EventuallyReturns == interrupted ~> (plot.pc = "returned")

====
